---- MODULE Spec2Model ----
(***************************************************************************)
(* dro::MPMC_Queue (include/dro/mpmc-queue.hpp): a bounded multi-producer  *)
(* multi-consumer ring whose slots carry a turn (generation) counter.      *)
(* Every atomic load, store, fetch_add and compare_exchange of the code is *)
(* one step of the calling thread; the interleaving is sequentially        *)
(* consistent.                                                             *)
(***************************************************************************)
EXTENDS Integers, Sequences, FiniteSets

\* ---------------------------------------------------------------- bounds
NumThreads == 3
MaxCapacity == 2
\* positions producers may claim (the producer of position p passes p + 1)
MaxPush == 3
\* positions blocking pop may claim
MaxPop == 3
\* width of std::size_t in the model
WordBits == 6

Threads == 1..NumThreads
MAX_SIZE_T == 2^WordBits - 1

VARIABLES
  request,    \* the constructor's argument `capacity`
  ctor,       \* "pending" | "ok" | "threw": outcome of the constructor
  capacity_,  \* MPMC_Queue::capacity_
  buffer_,    \* MPMC_Queue::buffer_: slot index -> [turn, data_]
  head_,      \* MPMC_Queue::head_
  tail_,      \* MPMC_Queue::tail_
  pc,         \* per thread: where it is inside its current call
  head,       \* per thread: the local `head` of emplace / try_emplace
  tail,       \* per thread: the local `tail` of pop / try_pop / size
  arg,        \* per thread: the value passed to emplace / push (bound when the
              \* call claims its position: a call that fails never reads it)
  val,        \* per thread: the caller's output variable passed to pop
  last,       \* per thread: the call that returned last and its result
  seen,       \* per thread: the slot turn a try_ call loaded last
  issued,     \* history, per thread: what held when its try_emplace was issued
  nextVal,    \* the value the next claiming producer call passes
  stored,     \* history: logical position -> value its producer assigned
  pushed,     \* history: arguments of the successful producer calls
  popped,     \* history: values the successful consumer calls obtained
  dtor,       \* where ~MPMC_Queue is: [at, i], i being its loop variable
  destroyed,  \* history: slot index -> how often data_.~T() has run
  elem,       \* the element type T: "int" (a move is a copy) or
              \* "unique_ptr" (move-only: a move empties its source)
  allocated,  \* the n of allocator_.allocate(n), 0 before it is called
  deallocated \* the n of allocator_.deallocate(buffer_, n), -1 before

vars == <<request, ctor, capacity_, buffer_, head_, tail_, pc, head, tail,
          arg, val, last, seen, issued, nextVal, stored, pushed, popped,
          dtor, destroyed, elem, allocated, deallocated>>

queueVars ==
  <<request, ctor, capacity_, dtor, destroyed, elem, allocated, deallocated>>
histVars == <<stored, pushed, popped>>

\* Slot: data_ is value-initialised, turn starts at 0
NewSlot == [turn |-> 0, data_ |-> 0]

NoCall == [op |-> "none", res |-> 0]

NotIssued == [popped |-> FALSE, released |-> FALSE]

\* the round computed with one slot too many
turnOffByOne(index) == index \div (capacity_ + 1)

\* MPMC_Queue::turn
turn(index) == index \div capacity_

SlotOf(index) == index % capacity_

\* ------------------------------------------------------------ constructor
\* a constructor that accepts capacity 0
CtorNeverThrows(capacity) == capacity < 0

CtorThrows(capacity) == capacity < 1

CtorCapacity(capacity) ==
  IF capacity = MAX_SIZE_T THEN MAX_SIZE_T - 1 ELSE capacity

ThreadsIdle ==
  /\ pc = [t \in Threads |-> "idle"]
  /\ head = [t \in Threads |-> 0]
  /\ tail = [t \in Threads |-> 0]
  /\ arg = [t \in Threads |-> 0]
  /\ val = [t \in Threads |-> 0]
  /\ last = [t \in Threads |-> NoCall]
  /\ seen = [t \in Threads |-> 0]
  /\ issued = [t \in Threads |-> NotIssued]
  /\ nextVal = 1
  /\ stored = [p \in 0..(MaxPush - 1) |-> 0]
  /\ pushed = <<>>
  /\ popped = <<>>

\* the queue has not been destroyed
Alive == dtor = [at |-> "alive", i |-> 0]

NotDestroyed == Alive /\ destroyed = <<>> /\ deallocated = -1

\* the members as the constructor leaves them when it does not throw:
\* capacity_ slots are constructed, head_ and tail_ are value-initialised
CtorResult(capacity) ==
  [capacity_ |-> CtorCapacity(capacity),
   allocated |-> CtorCapacity(capacity) + 1,
   buffer_ |-> [i \in 0..(CtorCapacity(capacity) - 1) |-> NewSlot],
   head_ |-> 0,
   tail_ |-> 0]

\* what is left in the source of a move assignment from an object
\* holding v
MovedFrom(v) == IF elem = "unique_ptr" THEN 0 ELSE v

\* the state after a successful construction with a small capacity
Constructed ==
  /\ \E capacity \in 1..MaxCapacity :
       /\ request = capacity
       /\ capacity_ = CtorResult(capacity).capacity_
       /\ allocated = CtorResult(capacity).allocated
       /\ buffer_ = CtorResult(capacity).buffer_
       /\ head_ = CtorResult(capacity).head_
       /\ tail_ = CtorResult(capacity).tail_
  /\ ctor = "ok"
  /\ ThreadsIdle
  /\ NotDestroyed

\* MPMC_Queue<int>, as in the capacity 1 test
Init == Constructed /\ elem = "int"

\* MPMC_Queue<std::unique_ptr<int>>, as in the movable only test
InitMoveOnly == Constructed /\ elem = "unique_ptr"

\* before the constructor runs, for every request a std::size_t can hold
InitCtor ==
  /\ request \in 0..MAX_SIZE_T
  /\ ctor = "pending"
  /\ capacity_ = 0
  /\ allocated = 0
  /\ buffer_ = <<>>
  /\ head_ = 0
  /\ tail_ = 0
  /\ ThreadsIdle
  /\ NotDestroyed
  /\ elem = "int"

threadVars == <<pc, head, tail, arg, val, last, seen, issued, nextVal>>

\* MPMC_Queue::MPMC_Queue(capacity) throws before anything is allocated
ConstructThrow ==
  /\ ctor = "pending"
  /\ CtorThrows(request)
  /\ ctor' = "threw"
  /\ UNCHANGED <<request, capacity_, buffer_, head_, tail_, threadVars, stored,
                 pushed, popped, dtor, destroyed, elem, allocated,
                 deallocated>>

Construct ==
  /\ ctor = "pending"
  /\ ~CtorThrows(request)
  /\ ctor' = "ok"
  /\ capacity_' = CtorResult(request).capacity_
  /\ allocated' = CtorResult(request).allocated
  /\ buffer_' = CtorResult(request).buffer_
  /\ head_' = CtorResult(request).head_
  /\ tail_' = CtorResult(request).tail_
  /\ UNCHANGED <<request, threadVars, stored, pushed, popped, dtor,
                 destroyed, elem, deallocated>>

ProducerPcs ==
  {"e_wait", "e_assign", "e_store",
   "te_check", "te_cas", "te_assign", "te_store", "te_reload"}

ConsumerPcs ==
  {"p_wait", "p_read", "p_store",
   "tp_check", "tp_cas", "tp_read", "tp_store", "tp_reload"}

OtherProducer(t) == \E u \in Threads \ {t} : pc[u] \in ProducerPcs

\* recorded when thread t issues a try_emplace: capacity_ pushes had
\* returned, no other producer call was in flight, and
\*   popped:   at least one pop had returned
\*   released: the consumer of position head_ - capacity_ had released the
\*             slot that position head_ falls on
\* Both are withdrawn as soon as another producer call is issued.
IssuedWhen(t) ==
  LET alone == ~OtherProducer(t) /\ Len(pushed) = capacity_
  IN [popped |-> alone /\ Len(popped) >= 1,
      released |-> alone /\ buffer_[SlotOf(head_)].turn = turn(head_) * 2]

\* producer calls in flight that have not claimed a position yet
Unclaimed == {t \in Threads : pc[t] \in {"te_check", "te_cas", "te_reload"}}

\* a producer call may start while a position below MaxPush is left for it
MayClaim == head_ + Cardinality(Unclaimed) < MaxPush

\* -------------------------------------------------------------- emplace
\* an emplace that reads head_ without adding to it
EmplaceFetchOnly(t) ==
  /\ pc[t] = "idle"
  /\ MayClaim
  /\ nextVal <= MaxPush
  /\ arg' = [arg EXCEPT ![t] = nextVal]
  /\ nextVal' = nextVal + 1
  /\ head' = [head EXCEPT ![t] = head_]
  /\ pc' = [pc EXCEPT ![t] = "e_wait"]
  /\ last' = [last EXCEPT ![t] = NoCall]
  /\ issued' = [u \in Threads |-> NotIssued]
  /\ UNCHANGED <<queueVars, buffer_, head_, tail_, tail, val, seen, histVars>>

Emplace(t) ==
  /\ pc[t] = "idle"
  /\ MayClaim
  /\ arg' = [arg EXCEPT ![t] = nextVal]
  /\ nextVal' = nextVal + 1
  /\ head' = [head EXCEPT ![t] = head_]
  /\ head_' = head_ + 1
  /\ pc' = [pc EXCEPT ![t] = "e_wait"]
  /\ last' = [last EXCEPT ![t] = NoCall]
  /\ issued' = [u \in Threads |-> NotIssued]
  /\ UNCHANGED <<queueVars, buffer_, tail_, tail, val, seen, histVars>>

\* an emplace that does not wait for its slot's turn
EmplaceNoWait(t) ==
  /\ pc[t] = "e_wait"
  /\ pc' = [pc EXCEPT ![t] = "e_assign"]
  /\ UNCHANGED <<queueVars, issued, buffer_, head_, tail_, head, tail, arg,
                 val, last, seen, nextVal, histVars>>

\* an emplace that also waits until every earlier position is published
EmplaceWaitInOrder(t) ==
  /\ pc[t] = "e_wait"
  /\ turn(head[t]) * 2 = buffer_[SlotOf(head[t])].turn
  /\ \A p \in 0..(head[t] - 1) : stored[p] \in {pushed[i] : i \in DOMAIN pushed}
  /\ pc' = [pc EXCEPT ![t] = "e_assign"]
  /\ UNCHANGED <<queueVars, issued, buffer_, head_, tail_, head, tail, arg,
                 val, last, seen, nextVal, histVars>>

EmplaceWait(t) ==
  /\ pc[t] = "e_wait"
  /\ turn(head[t]) * 2 = buffer_[SlotOf(head[t])].turn
  /\ pc' = [pc EXCEPT ![t] = "e_assign"]
  /\ UNCHANGED <<queueVars, issued, buffer_, head_, tail_, head, tail, arg,
                 val, last, seen, nextVal, histVars>>

\* slot.assign_value(args...), in emplace and in try_emplace
AssignValue(t, next) ==
  /\ buffer_' = [buffer_ EXCEPT ![SlotOf(head[t])].data_ = arg[t]]
  /\ arg' = [arg EXCEPT ![t] = MovedFrom(arg[t])]
  /\ stored' = [stored EXCEPT ![head[t]] = arg[t]]
  /\ pc' = [pc EXCEPT ![t] = next]
  /\ UNCHANGED <<queueVars, issued, head_, tail_, head, tail, val, last,
                 seen, nextVal, pushed, popped>>

\* slot.turn.store(turn(head) * 2 + 1) and the return
PublishValue(t, op) ==
  /\ buffer_' = [buffer_ EXCEPT ![SlotOf(head[t])].turn = turn(head[t]) * 2 + 1]
  /\ pushed' = Append(pushed, stored[head[t]])
  /\ pc' = [pc EXCEPT ![t] = "idle"]
  /\ last' = [last EXCEPT ![t] = [op |-> op, res |-> 1]]
  /\ head' = [head EXCEPT ![t] = 0]
  /\ arg' = [arg EXCEPT ![t] = 0]
  /\ seen' = [seen EXCEPT ![t] = 0]
  /\ issued' = [issued EXCEPT ![t] = NotIssued]
  /\ UNCHANGED <<queueVars, head_, tail_, tail, val, nextVal, stored, popped>>

EmplaceAssign(t) ==
  /\ pc[t] = "e_assign"
  /\ AssignValue(t, "e_store")

EmplaceStore(t) ==
  /\ pc[t] = "e_store"
  /\ PublishValue(t, "emplace")

\* ---------------------------------------------------------- try_emplace
TryEmplace(t) ==
  /\ pc[t] = "idle"
  /\ MayClaim
  /\ head' = [head EXCEPT ![t] = head_]
  /\ pc' = [pc EXCEPT ![t] = "te_check"]
  /\ last' = [last EXCEPT ![t] = NoCall]
  /\ issued' = [u \in Threads |-> IF u = t THEN IssuedWhen(t) ELSE NotIssued]
  /\ UNCHANGED <<queueVars, buffer_, head_, tail_, tail, arg, val, seen,
                 nextVal, histVars>>

\* a try_emplace that goes on to claim whatever the slot's turn is
TryEmplaceNoCheck(t) ==
  /\ pc[t] = "te_check"
  /\ seen' = [seen EXCEPT ![t] = buffer_[SlotOf(head[t])].turn]
  /\ pc' = [pc EXCEPT ![t] = "te_cas"]
  /\ UNCHANGED <<queueVars, issued, buffer_, head_, tail_, head, tail, arg,
                 val, last, nextVal, histVars>>

\* a check that expects the consumer's turn, as try_pop does
TryEmplaceCheckOdd(t) ==
  /\ pc[t] = "te_check"
  /\ seen' = [seen EXCEPT ![t] = buffer_[SlotOf(head[t])].turn]
  /\ pc' = [pc EXCEPT ![t] =
       IF turn(head[t]) * 2 + 1 = buffer_[SlotOf(head[t])].turn
       THEN "te_cas" ELSE "te_reload"]
  /\ UNCHANGED <<queueVars, issued, buffer_, head_, tail_, head, tail, arg,
                 val, last, nextVal, histVars>>

\* if (turn(head) * 2 == slot.turn.load(acquire))
TryEmplaceCheck(t) ==
  /\ pc[t] = "te_check"
  /\ seen' = [seen EXCEPT ![t] = buffer_[SlotOf(head[t])].turn]
  /\ pc' = [pc EXCEPT ![t] =
       IF turn(head[t]) * 2 = buffer_[SlotOf(head[t])].turn
       THEN "te_cas" ELSE "te_reload"]
  /\ UNCHANGED <<queueVars, issued, buffer_, head_, tail_, head, tail, arg,
                 val, last, nextVal, histVars>>

\* compare_exchange_weak: it may fail although head_ equals head
TryEmplaceCasWeak(t) ==
  /\ pc[t] = "te_cas"
  /\ \/ /\ head_ = head[t]
        /\ head_' = head[t] + 1
        /\ pc' = [pc EXCEPT ![t] = "te_assign"]
        /\ arg' = [arg EXCEPT ![t] = nextVal]
        /\ nextVal' = nextVal + 1
        /\ UNCHANGED head
     \/ /\ head' = [head EXCEPT ![t] = head_]
        /\ pc' = [pc EXCEPT ![t] = "te_check"]
        /\ UNCHANGED <<head_, arg, nextVal>>
  /\ UNCHANGED <<queueVars, issued, buffer_, tail_, tail, val, last, seen,
                 histVars>>

\* head_.compare_exchange_strong(head, head + 1)
TryEmplaceCas(t) ==
  /\ pc[t] = "te_cas"
  /\ \/ /\ head_ = head[t]
        /\ head_' = head[t] + 1
        /\ pc' = [pc EXCEPT ![t] = "te_assign"]
        /\ arg' = [arg EXCEPT ![t] = nextVal]
        /\ nextVal' = nextVal + 1
        /\ UNCHANGED head
     \/ /\ head_ # head[t]
        /\ head' = [head EXCEPT ![t] = head_]
        /\ pc' = [pc EXCEPT ![t] = "te_check"]
        /\ UNCHANGED <<head_, arg, nextVal>>
  /\ UNCHANGED <<queueVars, issued, buffer_, tail_, tail, val, last, seen,
                 histVars>>

TryEmplaceAssign(t) ==
  /\ pc[t] = "te_assign"
  /\ AssignValue(t, "te_store")

TryEmplaceStore(t) ==
  /\ pc[t] = "te_store"
  /\ PublishValue(t, "try_emplace")

\* a reload that returns false without comparing head with prevHead
TryEmplaceGiveUp(t) ==
  /\ pc[t] = "te_reload"
  /\ pc' = [pc EXCEPT ![t] = "idle"]
  /\ last' = [last EXCEPT ![t] = [op |-> "try_emplace", res |-> 0]]
  /\ head' = [head EXCEPT ![t] = 0]
  /\ arg' = [arg EXCEPT ![t] = 0]
  /\ seen' = [seen EXCEPT ![t] = 0]
  /\ issued' = [issued EXCEPT ![t] = NotIssued]
  /\ UNCHANGED <<queueVars, buffer_, head_, tail_, tail, val, nextVal,
                 histVars>>

\* prevHead = head; head = head_.load(acquire);
\* if (head == prevHead) return false
TryEmplaceReload(t) ==
  /\ pc[t] = "te_reload"
  /\ \/ /\ head_ = head[t]
        /\ pc' = [pc EXCEPT ![t] = "idle"]
        /\ last' = [last EXCEPT ![t] = [op |-> "try_emplace", res |-> 0]]
        /\ head' = [head EXCEPT ![t] = 0]
        /\ arg' = [arg EXCEPT ![t] = 0]
        /\ seen' = [seen EXCEPT ![t] = 0]
        /\ issued' = [issued EXCEPT ![t] = NotIssued]
     \/ /\ head_ # head[t]
        /\ head' = [head EXCEPT ![t] = head_]
        /\ pc' = [pc EXCEPT ![t] = "te_check"]
        /\ UNCHANGED <<arg, last, seen, issued>>
  /\ UNCHANGED <<queueVars, buffer_, head_, tail_, tail, val, nextVal,
                 histVars>>

\* ------------------------------------------------------------------ pop
Pop(t) ==
  /\ pc[t] = "idle"
  /\ tail_ < MaxPop
  /\ tail' = [tail EXCEPT ![t] = tail_]
  /\ tail_' = tail_ + 1
  /\ pc' = [pc EXCEPT ![t] = "p_wait"]
  /\ last' = [last EXCEPT ![t] = NoCall]
  /\ UNCHANGED <<queueVars, issued, buffer_, head_, head, arg, val, seen,
                 nextVal, histVars>>

\* a pop that does not wait for its slot's turn
PopNoWait(t) ==
  /\ pc[t] = "p_wait"
  /\ pc' = [pc EXCEPT ![t] = "p_read"]
  /\ UNCHANGED <<queueVars, issued, buffer_, head_, tail_, head, tail, arg,
                 val, last, seen, nextVal, histVars>>

PopWait(t) ==
  /\ pc[t] = "p_wait"
  /\ turn(tail[t]) * 2 + 1 = buffer_[SlotOf(tail[t])].turn
  /\ pc' = [pc EXCEPT ![t] = "p_read"]
  /\ UNCHANGED <<queueVars, issued, buffer_, head_, tail_, head, tail, arg,
                 val, last, seen, nextVal, histVars>>

\* a return_value that always reads the first slot
ReturnFirstSlot(t, next) ==
  /\ val' = [val EXCEPT ![t] = buffer_[0].data_]
  /\ pc' = [pc EXCEPT ![t] = next]
  /\ UNCHANGED <<queueVars, issued, buffer_, head_, tail_, head, tail, arg,
                 last, seen, nextVal, histVars>>

\* a return_value that hands out data_ without moving from it
ReturnValueCopy(t, next) ==
  /\ val' = [val EXCEPT ![t] = buffer_[SlotOf(tail[t])].data_]
  /\ pc' = [pc EXCEPT ![t] = next]
  /\ UNCHANGED <<queueVars, issued, buffer_, head_, tail_, head, tail, arg,
                 last, seen, nextVal, histVars>>

\* val = slot.return_value(), in pop and in try_pop: return_value() is
\* std::move(data_) for a move-assignable T, and val is move-assigned
ReturnValue(t, next) ==
  /\ val' = [val EXCEPT ![t] = buffer_[SlotOf(tail[t])].data_]
  /\ buffer_' = [buffer_ EXCEPT ![SlotOf(tail[t])].data_ = MovedFrom(@)]
  /\ pc' = [pc EXCEPT ![t] = next]
  /\ UNCHANGED <<queueVars, issued, head_, tail_, head, tail, arg,
                 last, seen, nextVal, histVars>>

\* a release that stores the turn the slot already has
ReleaseSameTurn(t, op) ==
  /\ buffer_' = [buffer_ EXCEPT ![SlotOf(tail[t])].turn = turn(tail[t]) * 2 + 1]
  /\ popped' = Append(popped, val[t])
  /\ pc' = [pc EXCEPT ![t] = "idle"]
  /\ last' = [last EXCEPT ![t] = [op |-> op, res |-> 1]]
  /\ tail' = [tail EXCEPT ![t] = 0]
  /\ seen' = [seen EXCEPT ![t] = 0]
  /\ UNCHANGED <<queueVars, issued, head_, tail_, head, arg, val, nextVal,
                 stored, pushed>>

\* slot.turn.store(turn(tail) * 2 + 2) and the return
ReleaseSlot(t, op) ==
  /\ buffer_' = [buffer_ EXCEPT ![SlotOf(tail[t])].turn = turn(tail[t]) * 2 + 2]
  /\ popped' = Append(popped, val[t])
  /\ pc' = [pc EXCEPT ![t] = "idle"]
  /\ last' = [last EXCEPT ![t] = [op |-> op, res |-> 1]]
  /\ tail' = [tail EXCEPT ![t] = 0]
  /\ seen' = [seen EXCEPT ![t] = 0]
  /\ UNCHANGED <<queueVars, issued, head_, tail_, head, arg, val, nextVal,
                 stored, pushed>>

PopRead(t) ==
  /\ pc[t] = "p_read"
  /\ ReturnValue(t, "p_store")

PopStore(t) ==
  /\ pc[t] = "p_store"
  /\ ReleaseSlot(t, "pop")

\* -------------------------------------------------------------- try_pop
TryPop(t) ==
  /\ pc[t] = "idle"
  /\ tail' = [tail EXCEPT ![t] = tail_]
  /\ pc' = [pc EXCEPT ![t] = "tp_check"]
  /\ last' = [last EXCEPT ![t] = NoCall]
  /\ UNCHANGED <<queueVars, issued, buffer_, head_, tail_, head, arg, val,
                 seen, nextVal, histVars>>

\* a check that copies the slot's value out before it looks at the turn
TryPopCheckPeek(t) ==
  /\ pc[t] = "tp_check"
  /\ seen' = [seen EXCEPT ![t] = buffer_[SlotOf(tail[t])].turn]
  /\ val' = [val EXCEPT ![t] = buffer_[SlotOf(tail[t])].data_]
  /\ pc' = [pc EXCEPT ![t] =
       IF turn(tail[t]) * 2 + 1 = buffer_[SlotOf(tail[t])].turn
       THEN "tp_cas" ELSE "tp_reload"]
  /\ UNCHANGED <<queueVars, issued, buffer_, head_, tail_, head, tail, arg,
                 last, nextVal, histVars>>

\* if (turn(tail) * 2 + 1 == slot.turn.load(acquire))
TryPopCheck(t) ==
  /\ pc[t] = "tp_check"
  /\ seen' = [seen EXCEPT ![t] = buffer_[SlotOf(tail[t])].turn]
  /\ pc' = [pc EXCEPT ![t] =
       IF turn(tail[t]) * 2 + 1 = buffer_[SlotOf(tail[t])].turn
       THEN "tp_cas" ELSE "tp_reload"]
  /\ UNCHANGED <<queueVars, issued, buffer_, head_, tail_, head, tail, arg,
                 val, last, nextVal, histVars>>

\* a claim of tail that stores tail + 1 without comparing
TryPopCasBlind(t) ==
  /\ pc[t] = "tp_cas"
  /\ tail_' = tail[t] + 1
  /\ pc' = [pc EXCEPT ![t] = "tp_read"]
  /\ UNCHANGED <<queueVars, issued, buffer_, head_, head, tail, arg, val, last,
                 seen, nextVal, histVars>>

\* tail_.compare_exchange_strong(tail, tail + 1)
TryPopCas(t) ==
  /\ pc[t] = "tp_cas"
  /\ \/ /\ tail_ = tail[t]
        /\ tail_' = tail[t] + 1
        /\ pc' = [pc EXCEPT ![t] = "tp_read"]
        /\ UNCHANGED tail
     \/ /\ tail_ # tail[t]
        /\ tail' = [tail EXCEPT ![t] = tail_]
        /\ pc' = [pc EXCEPT ![t] = "tp_check"]
        /\ UNCHANGED tail_
  /\ UNCHANGED <<queueVars, issued, buffer_, head_, head, arg, val, last, seen,
                 nextVal, histVars>>

TryPopRead(t) ==
  /\ pc[t] = "tp_read"
  /\ ReturnValue(t, "tp_store")

TryPopStore(t) ==
  /\ pc[t] = "tp_store"
  /\ ReleaseSlot(t, "try_pop")

\* a reload that returns false without comparing tail with prevTail
TryPopGiveUp(t) ==
  /\ pc[t] = "tp_reload"
  /\ pc' = [pc EXCEPT ![t] = "idle"]
  /\ last' = [last EXCEPT ![t] = [op |-> "try_pop", res |-> 0]]
  /\ tail' = [tail EXCEPT ![t] = 0]
  /\ seen' = [seen EXCEPT ![t] = 0]
  /\ UNCHANGED <<queueVars, issued, buffer_, head_, tail_, head, arg, val,
                 nextVal, histVars>>

\* prevTail = tail; tail = tail_.load(acquire);
\* if (tail == prevTail) return false
TryPopReload(t) ==
  /\ pc[t] = "tp_reload"
  /\ \/ /\ tail_ = tail[t]
        /\ pc' = [pc EXCEPT ![t] = "idle"]
        /\ last' = [last EXCEPT ![t] = [op |-> "try_pop", res |-> 0]]
        /\ tail' = [tail EXCEPT ![t] = 0]
        /\ seen' = [seen EXCEPT ![t] = 0]
     \/ /\ tail_ # tail[t]
        /\ tail' = [tail EXCEPT ![t] = tail_]
        /\ pc' = [pc EXCEPT ![t] = "tp_check"]
        /\ UNCHANGED <<last, seen>>
  /\ UNCHANGED <<queueVars, issued, buffer_, head_, tail_, head, arg, val,
                 nextVal, histVars>>

\* ------------------------------------------------------- size / empty
Abs(x) == IF x < 0 THEN -x ELSE x

\* std::size_t -> std::ptrdiff_t
ToPtrdiff(u) == IF u >= 2^(WordBits - 1) THEN u - 2^WordBits ELSE u

\* a size() that subtracts head from tail
SizeOfSwapped(tl, hd) ==
  LET maxToTail == MAX_SIZE_T - hd
      headToTail == ToPtrdiff((tl - hd) % 2^WordBits)
  IN IF maxToTail < Abs(headToTail)
     THEN ToPtrdiff((maxToTail + tl) % 2^WordBits)
     ELSE headToTail

\* a size() whose wrap-around test is inverted
SizeOfInverted(tl, hd) ==
  LET maxToTail == MAX_SIZE_T - tl
      headToTail == ToPtrdiff((hd - tl) % 2^WordBits)
  IN IF maxToTail > Abs(headToTail)
     THEN ToPtrdiff((maxToTail + hd) % 2^WordBits)
     ELSE headToTail

\* what size() returns once it has loaded tail and head
SizeOf(tl, hd) ==
  LET maxToTail == MAX_SIZE_T - tl
      headToTail == ToPtrdiff((hd - tl) % 2^WordBits)
  IN IF maxToTail < Abs(headToTail)
     THEN ToPtrdiff((maxToTail + hd) % 2^WordBits)
     ELSE headToTail

\* auto tail = tail_.load(acquire)
SizeLoadTail(t, next) ==
  /\ pc[t] = "idle"
  /\ tail' = [tail EXCEPT ![t] = tail_]
  /\ pc' = [pc EXCEPT ![t] = next]
  /\ last' = [last EXCEPT ![t] = NoCall]
  /\ UNCHANGED <<queueVars, issued, buffer_, head_, tail_, head, arg, val,
                 seen, nextVal, histVars>>

\* auto head = head_.load(acquire), the arithmetic and the return
SizeLoadHead(t, op, res) ==
  /\ pc' = [pc EXCEPT ![t] = "idle"]
  /\ last' = [last EXCEPT ![t] = [op |-> op, res |-> res]]
  /\ tail' = [tail EXCEPT ![t] = 0]
  /\ UNCHANGED <<queueVars, issued, buffer_, head_, tail_, head, arg, val,
                 seen, nextVal, histVars>>

Size(t) == SizeLoadTail(t, "sz_head")

SizeReturn(t) ==
  /\ pc[t] = "sz_head"
  /\ SizeLoadHead(t, "size", SizeOf(tail[t], head_))

\* empty() is size() <= 0
Empty(t) == SizeLoadTail(t, "em_head")

EmptyReturn(t) ==
  /\ pc[t] = "em_head"
  /\ SizeLoadHead(t, "empty", IF SizeOf(tail[t], head_) <= 0 THEN 1 ELSE 0)

\* -------------------------------------------------------- specifications
Producer(t) ==
  \/ Emplace(t)
  \/ EmplaceWait(t)
  \/ EmplaceAssign(t)
  \/ EmplaceStore(t)
  \/ TryEmplace(t)
  \/ TryEmplaceCheck(t)
  \/ TryEmplaceCas(t)
  \/ TryEmplaceAssign(t)
  \/ TryEmplaceStore(t)
  \/ TryEmplaceReload(t)

Consumer(t) ==
  \/ Pop(t)
  \/ PopWait(t)
  \/ PopRead(t)
  \/ PopStore(t)
  \/ TryPop(t)
  \/ TryPopCheck(t)
  \/ TryPopCas(t)
  \/ TryPopRead(t)
  \/ TryPopStore(t)
  \/ TryPopReload(t)

\* any thread may call any operation, one call at a time
Next == \E t \in Threads : Producer(t) \/ Consumer(t)

Spec == Init /\ [][Next]_vars

\* one producer thread and one consumer thread
NextSPSC == Producer(1) \/ Consumer(2)

SpecSPSC == Init /\ [][NextSPSC]_vars

AllIdle == \A t \in Threads : pc[t] = "idle"

\* the non-blocking calls, size() and empty(), one call at a time: a call
\* starts only when no other call is in flight
NextSeq ==
  \E t \in Threads :
    \/ AllIdle /\ TryEmplace(t)
    \/ AllIdle /\ TryPop(t)
    \/ AllIdle /\ Size(t)
    \/ AllIdle /\ Empty(t)
    \/ TryEmplaceCheck(t)
    \/ TryEmplaceCas(t)
    \/ TryEmplaceAssign(t)
    \/ TryEmplaceStore(t)
    \/ TryEmplaceReload(t)
    \/ TryPopCheck(t)
    \/ TryPopCas(t)
    \/ TryPopRead(t)
    \/ TryPopStore(t)
    \/ TryPopReload(t)
    \/ SizeReturn(t)
    \/ EmptyReturn(t)

SpecSeq == Init /\ [][NextSeq]_vars

\* the constructor alone, over every request
NextCtor == ConstructThrow \/ Construct

SpecCtor == InitCtor /\ [][NextCtor]_vars

\* the blocking calls alone; every thread that is inside a call is scheduled
\* again (a spinning thread keeps re-reading its slot's turn)
BlockingStep(t) ==
  \/ EmplaceWait(t)
  \/ EmplaceAssign(t)
  \/ EmplaceStore(t)
  \/ PopWait(t)
  \/ PopRead(t)
  \/ PopStore(t)

NextBlocking == \E t \in Threads : Emplace(t) \/ Pop(t) \/ BlockingStep(t)

\* any thread may call any operation on a queue of move-only elements
SpecMoveOnly == InitMoveOnly /\ [][Next]_vars

SpecBlocking ==
  /\ Init
  /\ [][NextBlocking]_vars
  /\ \A t \in Threads : WF_vars(BlockingStep(t))

\* the blocking calls alone, where thread 1 may stall for ever at any
\* point (a slow or preempted thread) and the other threads keep running
SpecStall ==
  /\ Init
  /\ [][NextBlocking]_vars
  /\ \A t \in Threads \ {1} : WF_vars(BlockingStep(t))

\* any thread may call any operation; size() and empty() are called in
\* quiescent states only, and no other call starts before they return
Sizing == \E t \in Threads : pc[t] \in {"sz_head", "em_head"}

NextQuiet ==
  \E t \in Threads :
    \/ ~Sizing /\ Producer(t)
    \/ ~Sizing /\ Consumer(t)
    \/ AllIdle /\ Size(t)
    \/ AllIdle /\ Empty(t)
    \/ SizeReturn(t)
    \/ EmptyReturn(t)

SpecQuiet == Init /\ [][NextQuiet]_vars

\* a quiescent queue whose counters have run for a long time: tail_ is any
\* value of a std::size_t, held values follow it, and head_ is the sum as
\* the unsigned arithmetic of head_.fetch_add leaves it
WrapSlot(capacity, tl, held, i) ==
  LET owners == {p \in (tl - capacity)..(tl + held - 1) :
                   p >= 0 /\ p % capacity = i /\ p + capacity >= tl + held}
  IN IF owners = {} THEN NewSlot
     ELSE LET p == CHOOSE q \in owners : TRUE
          IN IF p >= tl
             THEN [turn |-> (p \div capacity) * 2 + 1, data_ |-> 1]
             ELSE [turn |-> (p \div capacity) * 2 + 2, data_ |-> 1]

InitWrap ==
  /\ \E capacity \in 1..MaxCapacity :
       /\ request = capacity
       /\ capacity_ = CtorResult(capacity).capacity_
       /\ allocated = CtorResult(capacity).allocated
       /\ tail_ \in 0..MAX_SIZE_T
       /\ \E held \in 0..capacity :
            /\ head_ = (tail_ + held) % 2^WordBits
            /\ buffer_ = [i \in 0..(capacity - 1) |->
                            WrapSlot(capacity, tail_, held, i)]
  /\ ctor = "ok"
  /\ ThreadsIdle
  /\ NotDestroyed
  /\ elem = "int"

\* size() and empty() called on such a queue, nothing else
NextWrap ==
  \E t \in Threads : Size(t) \/ SizeReturn(t) \/ Empty(t) \/ EmptyReturn(t)

SpecWrap == InitWrap /\ [][NextWrap]_vars

\* a step of a non-blocking call after its first load
TryStep(t) ==
  \/ TryEmplaceCheck(t)
  \/ TryEmplaceCas(t)
  \/ TryEmplaceAssign(t)
  \/ TryEmplaceStore(t)
  \/ TryEmplaceReload(t)
  \/ TryPopCheck(t)
  \/ TryPopCas(t)
  \/ TryPopRead(t)
  \/ TryPopStore(t)
  \/ TryPopReload(t)

\* the non-blocking calls alone, by any thread at any time
NextTry == \E t \in Threads : TryEmplace(t) \/ TryPop(t) \/ TryStep(t)

SpecTry == Init /\ [][NextTry]_vars

\* size() called at any time while other threads use the non-blocking
\* calls
NextTrySize ==
  \/ NextTry
  \/ \E t \in Threads : Size(t) \/ SizeReturn(t)

SpecTrySize == Init /\ [][NextTrySize]_vars

\* blocking pops wait on a queue that holds nothing, nothing is resident
\* and no producer call is in flight
PendingPops == {t \in Threads : pc[t] = "p_wait"}

Pending ==
  /\ PendingPops # {}
  /\ \A t \in Threads : pc[t] \in {"idle", "p_wait"}
  /\ \A i \in DOMAIN buffer_ : buffer_[i].turn % 2 = 0

\* pops issued before the pushes that serve them, as in the example;
\* try_pop at any time, size() and empty() while pops are pending
NextPending ==
  \E t \in Threads :
    \/ ~Sizing /\ (Emplace(t) \/ Pop(t) \/ BlockingStep(t))
    \/ ~Sizing /\ TryPop(t)
    \/ ~Sizing /\ TryPopCheck(t)
    \/ ~Sizing /\ TryPopCas(t)
    \/ ~Sizing /\ TryPopRead(t)
    \/ ~Sizing /\ TryPopStore(t)
    \/ ~Sizing /\ TryPopReload(t)
    \/ Pending /\ Size(t)
    \/ Pending /\ Empty(t)
    \/ SizeReturn(t)
    \/ EmptyReturn(t)

SpecPending == Init /\ [][NextPending]_vars

\* ----------------------------------------------------------- destructor
\* ~MPMC_Queue() is entered; that no call is in flight is the caller's
\* obligation
DtorStart ==
  /\ ctor = "ok"
  /\ Alive
  /\ AllIdle
  /\ dtor' = [at |-> "slot", i |-> 0]
  /\ destroyed' = [i \in DOMAIN buffer_ |-> 0]
  /\ UNCHANGED <<request, ctor, capacity_, buffer_, head_, tail_, threadVars,
                 histVars, elem, allocated, deallocated>>

\* a ~Slot() that calls destroy() whatever the turn is
SlotDtorBodyAlways ==
  /\ dtor.at = "slot"
  /\ dtor.i < capacity_
  /\ destroyed' = [destroyed EXCEPT ![dtor.i] = @ + 1]
  /\ dtor' = [dtor EXCEPT !.at = "members"]
  /\ UNCHANGED <<request, ctor, capacity_, buffer_, head_, tail_, threadVars,
                 histVars, elem, allocated, deallocated>>

\* buffer_[i].~Slot(), its body: if (turn.load(acquire) & 1) destroy(),
\* and destroy() is data_.~T()
SlotDtorBody ==
  /\ dtor.at = "slot"
  /\ dtor.i < capacity_
  /\ destroyed' = [destroyed EXCEPT ![dtor.i] =
       IF buffer_[dtor.i].turn % 2 = 1 THEN @ + 1 ELSE @]
  /\ dtor' = [dtor EXCEPT !.at = "members"]
  /\ UNCHANGED <<request, ctor, capacity_, buffer_, head_, tail_, threadVars,
                 histVars, elem, allocated, deallocated>>

\* buffer_[i].~Slot(), after its body: the member data_ is destroyed, as
\* every member is. When destroy() has ended the lifetime of data_ this
\* second destructor call is undefined: it runs ~T() on the dead object,
\* or the program faults.
SlotDtorMembers ==
  /\ dtor.at = "members"
  /\ \/ /\ destroyed' = [destroyed EXCEPT ![dtor.i] = @ + 1]
        /\ dtor' = [at |-> "slot", i |-> dtor.i + 1]
     \/ /\ destroyed[dtor.i] >= 1
        /\ dtor' = [dtor EXCEPT !.at = "fault"]
        /\ UNCHANGED destroyed
  /\ UNCHANGED <<request, ctor, capacity_, buffer_, head_, tail_, threadVars,
                 histVars, elem, allocated, deallocated>>

\* the loop is over: allocator_.deallocate(buffer_, capacity_ - 1). With
\* an n that is not the n of allocate the call is undefined: the storage
\* is released all the same, or the program faults.
DtorDeallocate ==
  /\ dtor.at = "slot"
  /\ dtor.i = capacity_
  /\ deallocated' = capacity_ - 1
  /\ \/ dtor' = [dtor EXCEPT !.at = "done"]
     \/ /\ capacity_ - 1 # allocated
        /\ dtor' = [dtor EXCEPT !.at = "badfree"]
  /\ UNCHANGED <<request, ctor, capacity_, buffer_, head_, tail_, threadVars,
                 histVars, destroyed, elem, allocated>>

\* one producer and one consumer use the queue, then it is destroyed
NextTeardown ==
  \/ Alive /\ NextSPSC
  \/ DtorStart
  \/ SlotDtorBody
  \/ SlotDtorMembers
  \/ DtorDeallocate

SpecTeardown == Init /\ [][NextTeardown]_vars

\* ------------------------------------- the variant in src/mpmc-queue.hpp
\* ++capacity_ on a std::size_t: the increment wraps
AltIncrement(capacity) == (capacity + 1) % (2 ^ WordBits)

\* capacity_ as the variant's constructor leaves it: raised to 1, then
\* incremented, then compared with SIZE_MAX
AltCtorCapacity(capacity) ==
  LET raised == IF capacity < 1 THEN 1 ELSE capacity
      bumped == AltIncrement(raised)
  IN  IF bumped > MAX_SIZE_T THEN MAX_SIZE_T - 1 ELSE bumped

\* the variant's MPMC_Queue::MPMC_Queue(capacity): it has no throw
\* statement, and buffer_.resize(capacity_) makes capacity_ fresh slots
AltConstruct ==
  /\ ctor = "pending"
  /\ ctor' = "ok"
  /\ capacity_' = AltCtorCapacity(request)
  /\ allocated' = AltCtorCapacity(request)
  /\ buffer_' = [i \in 0..(AltCtorCapacity(request) - 1) |-> NewSlot]
  /\ UNCHANGED <<request, head_, tail_, threadVars, stored, pushed, popped,
                 dtor, destroyed, elem, deallocated>>

\* the variant's turn(index), called by thread t: index / capacity_. An
\* integer division by zero is undefined: the call traps, or the divide
\* instruction yields 0 without trapping.
AltTurn(t, index) ==
  /\ ctor = "ok"
  /\ \/ /\ capacity_ # 0
        /\ last' = [last EXCEPT ![t] =
                      [op |-> "turn", res |-> index \div capacity_]]
     \/ /\ capacity_ = 0
        /\ \E op \in {"turn", "fault"} :
             last' = [last EXCEPT ![t] = [op |-> op, res |-> 0]]
  /\ UNCHANGED <<queueVars, buffer_, head_, tail_, histVars, pc, head, tail,
                 arg, val, seen, issued, nextVal>>

\* turn() is a pure function of index and capacity_: one caller is enough
NextAlt ==
  \/ AltConstruct
  \/ \E index \in 0..MAX_SIZE_T : AltTurn(1, index)

SpecAlt == InitCtor /\ [][NextAlt]_vars

\* ------------------------------------------------------------- claims
Count(seq, v) == Cardinality({i \in 1..Len(seq) : seq[i] = v})

\* C1: a consumer that has read its slot holds exactly the value that the
\* producer of the same logical position stored, whatever the interleaving
\* of blocking and non-blocking producers and consumers.
C1_PositionalHandoff ==
  \A t \in Threads :
    pc[t] \in {"p_store", "tp_store"} =>
      /\ stored[tail[t]] # 0
      /\ val[t] = stored[tail[t]]

\* a consumer holds the value of a position of the second round while
\* another thread is still inside a call
C1_Witness ==
  \E t \in Threads :
    /\ pc[t] \in {"p_store", "tp_store"}
    /\ tail[t] >= capacity_
    /\ val[t] = stored[tail[t]]
    /\ \E u \in Threads \ {t} : pc[u] # "idle"

\* C2: once every call has returned and as many pops as pushes were made,
\* the popped values are the pushed values, each exactly once.
C2_NoLossNoDup ==
  /\ \A v \in 1..MaxPush : Count(popped, v) <= 1
  /\ \A i \in 1..Len(popped) : Count(pushed, popped[i]) = 1
  /\ (AllIdle /\ head_ = tail_) =>
       /\ Len(pushed) = head_
       /\ \A v \in 0..MaxPush : Count(popped, v) = Count(pushed, v)

\* three values went through, and were popped in another order than the
\* order in which their pushes returned
C2_Witness ==
  /\ AllIdle
  /\ head_ = tail_
  /\ Len(pushed) = MaxPush
  /\ Len(popped) = MaxPush
  /\ popped # pushed

\* C3: with one producer and one consumer the values popped so far are the
\* values of the completed pushes, in the same order.
C3_FifoSPSC ==
  /\ Len(popped) <= Len(pushed)
  /\ \A i \in 1..Len(popped) : popped[i] = pushed[i]

C3_Witness ==
  /\ Len(popped) = MaxPush
  /\ popped = pushed
  /\ last[1].op = "try_emplace"
  /\ last[2].op = "pop"

\* C4: the constructor throws exactly for capacity 0; otherwise head and
\* tail are 0, capacity_ slots exist, all with turn 0, and capacity_ is the
\* request, or MAX_SIZE_T - 1 when the request is MAX_SIZE_T.
C4_Construction ==
  /\ ctor = "threw" => request = 0 /\ buffer_ = <<>>
  /\ ctor = "ok" =>
       /\ request >= 1
       /\ head_ = 0
       /\ tail_ = 0
       /\ DOMAIN buffer_ = 0..(capacity_ - 1)
       /\ \A i \in DOMAIN buffer_ : buffer_[i].turn = 0
       /\ capacity_ = IF request = MAX_SIZE_T THEN MAX_SIZE_T - 1 ELSE request
  /\ ctor = "pending" => ENABLED NextCtor

C4_Witness ==
  /\ ctor = "ok"
  /\ request = MAX_SIZE_T
  /\ capacity_ = MAX_SIZE_T - 1

\* the reference FIFO: the values of the successful pushes that no
\* successful pop has removed yet
Held == SubSeq(pushed, Len(popped) + 1, Len(pushed))

Returns(t, from) == pc[t] = from /\ pc'[t] = "idle"

\* C5: used by one call at a time, the queue is a FIFO bounded by
\* capacity_: try_push succeeds exactly when fewer than capacity_ values
\* are held, try_pop succeeds exactly when a value is held and yields the
\* oldest one, size() is the number held and empty() says whether it is 0.
C5_SequentialFifo ==
  [][\A t \in Threads :
       /\ Returns(t, "te_store") =>
            Len(Held) < capacity_ /\ Held' = Append(Held, arg[t])
       /\ Returns(t, "te_reload") => Len(Held) = capacity_ /\ Held' = Held
       /\ Returns(t, "tp_store") =>
            Len(Held) >= 1 /\ val[t] = Head(Held) /\ Held' = Tail(Held)
       /\ Returns(t, "tp_reload") => Len(Held) = 0 /\ Held' = Held
       /\ Returns(t, "sz_head") => last'[t].res = Len(Held)
       /\ Returns(t, "em_head") => (last'[t].res = 1 <=> Len(Held) = 0)
    ]_vars

\* a full queue of the second round has just refused a push
C5_Witness ==
  /\ AllIdle
  /\ Len(Held) = capacity_
  /\ Len(popped) >= 1
  /\ \E t \in Threads : last[t] = [op |-> "try_emplace", res |-> 0]
  /\ \E t \in Threads : last[t] = [op |-> "size", res |-> capacity_]

\* C6 as stated: while capacity_ pushes have returned and no pop has been
\* claimed no try_push returns true, and a try_push issued after a pop
\* has returned, with no other producer in flight, does not return false.
C6_Original ==
  [][\A t \in Threads :
       /\ Returns(t, "te_store") => ~(Len(pushed) >= capacity_ /\ tail_ = 0)
       /\ Returns(t, "te_reload") => ~issued[t].popped
    ]_vars

\* C6, amended: while capacity_ pushes have returned and no pop has been
\* claimed no try_push returns true, and a try_push issued after the
\* consumer of the oldest position (head - capacity) has released its
\* slot, with no other producer in flight, does not return false.
C6_FullRejects ==
  [][\A t \in Threads :
       /\ Returns(t, "te_store") => ~(Len(pushed) >= capacity_ /\ tail_ = 0)
       /\ Returns(t, "te_reload") => ~issued[t].released
    ]_vars

\* a try_push issued after the release is about to return true, while
\* another thread's try_push has been refused
C6_Witness ==
  \E t, u \in Threads :
    /\ pc[t] = "te_store"
    /\ issued[t].released
    /\ last[u] = [op |-> "try_emplace", res |-> 0]

\* C7: under fair scheduling, with blocking calls only, whenever as many
\* pops as pushes have been issued every call returns.
C7_BlockingReturns == <>[](head_ = tail_) => <>[]AllIdle

\* capacity 1: MaxPop pops and as many pushes have all returned
C7_Witness ==
  /\ capacity_ = 1
  /\ AllIdle
  /\ head_ = MaxPop
  /\ tail_ = MaxPop
  /\ Len(popped) = MaxPop

TryPcs ==
  {"te_check", "te_cas", "te_assign", "te_store", "te_reload",
   "tp_check", "tp_cas", "tp_read", "tp_store", "tp_reload"}

\* C8: a thread inside a non-blocking call can always take its next step,
\* and it goes round its loop again only when head_ (tail_) differs from
\* the value it observed last.
C8_NeverWaits ==
  [][\A t \in Threads :
       /\ pc[t] \in TryPcs => ENABLED TryStep(t)
       /\ (pc[t] \in {"te_cas", "te_reload"} /\ pc'[t] = "te_check") =>
            head_ # head[t]
       /\ (pc[t] \in {"tp_cas", "tp_reload"} /\ pc'[t] = "tp_check") =>
            tail_ # tail[t]
    ]_vars

\* a non-blocking call is in a later iteration of its loop: it has loaded
\* a slot turn before
C8_Witness ==
  \E t \in Threads : pc[t] \in {"te_check", "tp_check"} /\ seen[t] # 0

\* C9 as stated, in its weakest reading: when try_emplace returns false
\* head - tail is capacity_, or at least every slot holds a value that has
\* not been released.
C9_Original ==
  [][\A t \in Threads :
       Returns(t, "te_reload") =>
         \/ head_ - tail_ = capacity_
         \/ \A i \in DOMAIN buffer_ : buffer_[i].turn % 2 = 1
    ]_vars

\* C9, amended: when try_emplace returns false, head is at least capacity_
\* and the slot of position head, when the call loaded its turn, had not
\* been released by the consumer of position head - capacity_.
C9_FalseOnlyWhenSlotBusy ==
  [][\A t \in Threads :
       Returns(t, "te_reload") =>
         /\ head[t] = head_
         /\ head[t] >= capacity_
         /\ seen[t] < turn(head[t]) * 2
    ]_vars

\* a try_emplace has returned false while a consumer that has claimed its
\* position is still reading, so that head - tail is below capacity_
C9_Witness ==
  \E t, u \in Threads :
    /\ last[t] = [op |-> "try_emplace", res |-> 0]
    /\ pc[u] \in {"p_read", "p_store", "tp_read", "tp_store"}
    /\ head_ - tail_ < capacity_
    /\ \A i \in DOMAIN buffer_ : buffer_[i].turn % 2 = 1

\* slot i holds a published value that no consumer has claimed
Available(i) ==
  /\ buffer_[i].turn % 2 = 1
  /\ ~\E u \in Threads :
        /\ pc[u] \in {"p_wait", "p_read", "p_store", "tp_read", "tp_store"}
        /\ SlotOf(tail[u]) = i
        /\ turn(tail[u]) * 2 + 1 = buffer_[i].turn

\* C10 as stated, in its weakest reading: when try_pop returns false
\* head - tail is 0, or at least no slot holds a published value that no
\* consumer has claimed.
C10_Original ==
  [][\A t \in Threads :
       Returns(t, "tp_reload") =>
         \/ head_ - tail_ = 0
         \/ \A i \in DOMAIN buffer_ : ~Available(i)
    ]_vars

\* C10, amended: when try_pop returns false, the value of position tail
\* had not been published when the call loaded the turn of its slot.
C10_FalseOnlyWhenUnpublished ==
  [][\A t \in Threads :
       Returns(t, "tp_reload") =>
         /\ tail[t] = tail_
         /\ seen[t] < turn(tail[t]) * 2 + 1
    ]_vars

\* a try_pop has returned false while a later position holds a published
\* value and the producer of position tail has not published yet
C10_Witness ==
  \E t, u \in Threads :
    /\ last[t] = [op |-> "try_pop", res |-> 0]
    /\ pc[u] \in {"e_wait", "e_assign", "e_store", "te_assign", "te_store"}
    /\ head[u] = tail_
    /\ \E i \in DOMAIN buffer_ : Available(i)
\* calls that have claimed a position and still spin on its slot's turn
Waiting(at) == Cardinality({t \in Threads : pc[t] = at})

\* C11 as stated: head - tail, as an unsigned difference, never exceeds
\* capacity_.
C11_Original == (head_ - tail_) % 2^WordBits <= capacity_

\* C11, amended: counting only the positions whose call has passed the
\* check of its slot's turn (every claimed position but those of blocking
\* calls that still spin), head - tail lies in 0..capacity_; so it does in
\* every state without a spinning call, and in every quiescent state.
C11_CounterInvariant ==
  LET produced == head_ - Waiting("e_wait")
      consumed == tail_ - Waiting("p_wait")
  IN /\ 0 <= produced - consumed
     /\ produced - consumed <= capacity_
     /\ AllIdle => (head_ - tail_) % 2^WordBits <= capacity_

\* a blocking producer spins on a full queue: head - tail is above
\* capacity_, and a blocking pop still spins as well
C11_Witness ==
  /\ head_ - tail_ > capacity_
  /\ Waiting("e_wait") >= 1
  /\ \E i \in DOMAIN buffer_ : buffer_[i].turn >= 2
  /\ \A i \in DOMAIN buffer_ : buffer_[i].turn % 2 = 1
\* slots that hold a published value not yet released
Resident == {i \in DOMAIN buffer_ : buffer_[i].turn % 2 = 1}

\* C12: called in a quiescent state, after any concurrent history, size()
\* returns the number of values pushed and not popped, which is the number
\* of resident slots and lies in 0..capacity_, and empty() returns true
\* exactly when that number is 0.
C12_SizeQuiescent ==
  [][\A t \in Threads :
       /\ Returns(t, "sz_head") =>
            /\ last'[t].res = Len(pushed) - Len(popped)
            /\ last'[t].res = Cardinality(Resident)
            /\ last'[t].res \in 0..capacity_
       /\ Returns(t, "em_head") =>
            (last'[t].res = 1 <=> Len(pushed) = Len(popped))
    ]_vars

\* size() has returned capacity_ and empty() false on a full queue of two
\* slots whose values were popped in another order than they were pushed
C12_Witness ==
  /\ AllIdle
  /\ capacity_ = 2
  /\ Len(popped) >= 1
  /\ \E i \in 1..Len(popped) : popped[i] # pushed[i]
  /\ \E t \in Threads : last[t] = [op |-> "size", res |-> capacity_]
  /\ \E t \in Threads : last[t] = [op |-> "empty", res |-> 0]
\* thread t takes a step of a non-blocking call that has not claimed a
\* position: the first load, a check, a failed compare_exchange, a reload
\* or the return of false
BeforeClaim(t) ==
  /\ pc'[t] # pc[t] \/ head'[t] # head[t] \/ tail'[t] # tail[t]
  /\ \/ pc'[t] \in {"te_check", "te_cas", "te_reload"}
     \/ pc'[t] \in {"tp_check", "tp_cas", "tp_reload"}
     \/ Returns(t, "te_reload")
     \/ Returns(t, "tp_reload")

\* C13: a non-blocking call that returns false has changed nothing: none
\* of its steps changes head_, tail_, a slot's value or turn, or the
\* caller's output variable, and a call that has claimed a position (the
\* only steps that write) goes on to return true.
C13_FailedCallsChangeNothing ==
  [][\A t \in Threads :
       /\ BeforeClaim(t) =>
            /\ UNCHANGED <<head_, tail_, buffer_, val, arg>>
            /\ UNCHANGED <<stored, pushed, popped>>
       /\ Returns(t, "te_reload") => last'[t].res = 0
       /\ Returns(t, "tp_reload") => last'[t].res = 0
       /\ (pc[t] \in {"te_assign", "te_store", "tp_read", "tp_store"}
             /\ pc'[t] = "idle") => last'[t].res = 1
       /\ pc[t] \in {"te_assign", "te_store"} =>
            pc'[t] \in {"te_assign", "te_store", "idle"}
       /\ pc[t] \in {"tp_read", "tp_store"} =>
            pc'[t] \in {"tp_read", "tp_store", "idle"}
    ]_vars

\* a try_pop has returned false to a caller whose output variable still
\* holds the value of an earlier pop, a try_emplace has returned false as
\* well, and a slot holds a value
C13_Witness ==
  \E t, u \in Threads :
    /\ last[t] = [op |-> "try_pop", res |-> 0]
    /\ val[t] # 0
    /\ last[u] = [op |-> "try_emplace", res |-> 0]
    /\ Resident # {}
\* ~Slot() has returned for slot i
SlotGone(i) == dtor.at \in {"slot", "done"} /\ (dtor.at = "done" \/ dtor.i > i)

\* C14 as stated: when the queue is destroyed with no call in flight, the
\* destructor of the value of every slot with an odd turn runs exactly
\* once, and the teardown does not fault.
C14_Original ==
  /\ dtor.at # "fault"
  /\ \A i \in DOMAIN destroyed :
       (buffer_[i].turn % 2 = 1 /\ SlotGone(i)) => destroyed[i] = 1

\* the teardown is over and the destructor of a resident value, pushed
\* and never popped, has run twice
C14_Witness ==
  /\ dtor.at = "done"
  /\ \E i \in DOMAIN destroyed :
       /\ buffer_[i].turn % 2 = 1
       /\ buffer_[i].data_ # 0
       /\ destroyed[i] = 2

\* C15: for a slot whose turn is even at teardown the explicit destroy
\* step is skipped and its stored object is destroyed once, never twice.
C15_EvenSlotDestroyedOnce ==
  \A i \in DOMAIN destroyed :
    buffer_[i].turn % 2 = 0 =>
      /\ destroyed[i] <= 1
      /\ (dtor.at = "members" /\ dtor.i = i) => destroyed[i] = 0
      /\ (dtor.at = "fault") => dtor.i # i
      /\ SlotGone(i) => destroyed[i] = 1

\* the teardown of a queue of two slots is over: one slot was never
\* produced into, the other one was produced into and consumed
C15_Witness ==
  /\ dtor.at = "done"
  /\ capacity_ = 2
  /\ \E i, j \in DOMAIN buffer_ :
       /\ buffer_[i].turn = 0
       /\ buffer_[j].turn = 2
       /\ destroyed[i] = 1
       /\ destroyed[j] = 1
\* how many objects hold the value v: slots, consumers' output variables
\* and producers' arguments
Owners(v) ==
  Cardinality({i \in DOMAIN buffer_ : buffer_[i].data_ = v})
    + Cardinality({t \in Threads : val[t] = v})
    + Cardinality({t \in Threads : arg[t] = v})

\* C16: with a move-only element type no value is held by two objects; a
\* value passed to a producer call is held by exactly one (the argument,
\* then the slot, then the output of the consumer that popped it) until
\* its pop has returned, and a slot a consumer has read holds nothing.
C16_MoveOnlyNoAlias ==
  /\ \A v \in 1..MaxPush : Owners(v) <= 1
  /\ \A v \in 1..MaxPush :
       (v < nextVal /\ Count(popped, v) = 0) => Owners(v) = 1
  /\ \A p \in DOMAIN stored :
       (/\ stored[p] # 0
        /\ Count(popped, stored[p]) = 0
        /\ \A t \in Threads : val[t] # stored[p]) =>
         buffer_[SlotOf(p)].data_ = stored[p]
  /\ \A t \in Threads :
       pc[t] \in {"p_store", "tp_store"} =>
         /\ val[t] = stored[tail[t]]
         /\ buffer_[SlotOf(tail[t])].data_ = 0

\* a consumer holds a value of the second round that it has moved out of
\* its slot, while another consumer holds an earlier value
C16_Witness ==
  \E t, u \in Threads :
    /\ t # u
    /\ pc[t] \in {"p_store", "tp_store"}
    /\ tail[t] >= capacity_
    /\ val[t] = stored[tail[t]]
    /\ buffer_[SlotOf(tail[t])].data_ = 0
    /\ val[u] # 0
\* program points of a producer (consumer) call that has claimed a position
ClaimedProducerPcs == {"e_wait", "e_assign", "e_store", "te_assign", "te_store"}

ClaimedConsumerPcs == {"p_wait", "p_read", "p_store", "tp_read", "tp_store"}

\* thread t obtains a position in this step
ClaimsHead(t) ==
  pc[t] \notin ClaimedProducerPcs /\ pc'[t] \in ClaimedProducerPcs

ClaimsTail(t) ==
  pc[t] \notin ClaimedConsumerPcs /\ pc'[t] \in ClaimedConsumerPcs

\* C17: a producer call that obtains a position obtains the current head_
\* and moves head_ one further, head_ changes in no other way, and likewise
\* for consumer calls and tail_; so no two calls, blocking or not, ever
\* hold the same position of head_, or the same position of tail_.
C17_UniqueClaims ==
  /\ [](\A t, u \in Threads :
         /\ (t # u /\ pc[t] \in ClaimedProducerPcs
               /\ pc[u] \in ClaimedProducerPcs) => head[t] # head[u]
         /\ (t # u /\ pc[t] \in ClaimedConsumerPcs
               /\ pc[u] \in ClaimedConsumerPcs) => tail[t] # tail[u])
  /\ [][/\ \A t \in Threads :
            /\ ClaimsHead(t) => head'[t] = head_ /\ head_' = head_ + 1
            /\ ClaimsTail(t) => tail'[t] = tail_ /\ tail_' = tail_ + 1
        /\ head_' # head_ => \E t \in Threads : ClaimsHead(t)
        /\ tail_' # tail_ => \E t \in Threads : ClaimsTail(t)
       ]_vars

\* a blocking and a non-blocking producer hold two positions of the same
\* slot while a consumer holds a position as well
C17_Witness ==
  \E t, u, w \in Threads :
    /\ pc[t] \in {"e_wait", "e_assign", "e_store"}
    /\ pc[u] \in {"te_assign", "te_store"}
    /\ head[t] # head[u]
    /\ SlotOf(head[t]) = SlotOf(head[u])
    /\ pc[w] \in ClaimedConsumerPcs
\* program points between the passed turn check (and, in a non-blocking
\* call, the claim) and the store of the new turn
WriterPcs == {"e_assign", "e_store", "te_assign", "te_store"}

ReaderPcs == {"p_read", "p_store", "tp_read", "tp_store"}

\* the slot thread t is accessing, or -1
Accessing(t) ==
  IF pc[t] \in WriterPcs THEN SlotOf(head[t])
  ELSE IF pc[t] \in ReaderPcs THEN SlotOf(tail[t])
  ELSE -1

\* C18: no two threads are inside the value-access section of one slot; a
\* producer is inside it only while the slot is released for its round
\* (the value of the round before has been read and released), and a
\* consumer only while the value of its own position is published.
C18_SlotMutualExclusion ==
  /\ \A t, u \in Threads :
       (t # u /\ Accessing(t) # -1) => Accessing(t) # Accessing(u)
  /\ \A t \in Threads :
       pc[t] \in WriterPcs =>
         buffer_[SlotOf(head[t])].turn = turn(head[t]) * 2
  /\ \A t \in Threads :
       pc[t] \in ReaderPcs =>
         /\ buffer_[SlotOf(tail[t])].turn = turn(tail[t]) * 2 + 1
         /\ stored[tail[t]] # 0
         /\ \A u \in Threads :
              pc[u] \in ClaimedProducerPcs => head[u] # tail[t]

\* a consumer reads a slot while a producer of the next round waits for
\* that very slot, and a third thread writes another slot
C18_Witness ==
  \E t, u, w \in Threads :
    /\ pc[t] \in ReaderPcs
    /\ pc[u] = "e_wait"
    /\ SlotOf(head[u]) = SlotOf(tail[t])
    /\ head[u] = tail[t] + capacity_
    /\ pc[w] \in WriterPcs
    /\ Accessing(w) # Accessing(t)
\* position p has been produced (its producer has stored the turn) and
\* its consumer has not released the slot yet
Unreleased(p) ==
  /\ stored[p] # 0
  /\ Count(pushed, stored[p]) = 1
  /\ Count(popped, stored[p]) = 0

\* C19: a slot's turn changes by steps of one only, to odd by the producer
\* of its current round and to even by the consumer of that round, and it
\* is odd exactly when the slot holds a produced value that its consumer
\* has not released, namely the value of round (turn - 1) / 2.
C19_GenerationProtocol ==
  /\ [](\A i \in DOMAIN buffer_ :
         /\ buffer_[i].turn % 2 = 1 <=>
              \E p \in DOMAIN stored : SlotOf(p) = i /\ Unreleased(p)
         /\ \A p \in DOMAIN stored :
              (SlotOf(p) = i /\ Unreleased(p)) =>
                /\ buffer_[i].turn = turn(p) * 2 + 1
                /\ buffer_[i].data_ = stored[p])
  /\ [][\A i \in DOMAIN buffer_ :
          buffer_'[i].turn # buffer_[i].turn =>
            /\ buffer_'[i].turn = buffer_[i].turn + 1
            /\ \E t \in Threads :
                 \/ /\ pc[t] \in {"e_store", "te_store"}
                    /\ pc'[t] = "idle"
                    /\ SlotOf(head[t]) = i
                    /\ buffer_[i].turn = turn(head[t]) * 2
                 \/ /\ pc[t] \in {"p_store", "tp_store"}
                    /\ pc'[t] = "idle"
                    /\ SlotOf(tail[t]) = i
                    /\ buffer_[i].turn = turn(tail[t]) * 2 + 1
       ]_vars

\* of two slots the first is in its second round and holds a value, the
\* second has been released after its first round
C19_Witness ==
  /\ capacity_ = 2
  /\ buffer_[0].turn = 3
  /\ buffer_[1].turn = 2
  /\ Unreleased(2)
\* thread 1 has claimed a position with emplace and has not published
Stalled == pc[1] \in {"e_wait", "e_assign", "e_store"}

\* position q is one of the capacity_ - 1 positions after that of thread 1
Later(q) == q \in (head[1] + 1)..(head[1] + capacity_ - 1)

\* the producer of position q may go ahead: its slot is released for
\* the round of q
Free(q) == buffer_[SlotOf(q)].turn = turn(q) * 2

\* thread u produces a later position whose slot is free
LaterProducer(u) ==
  /\ Stalled
  /\ pc[u] \in {"e_wait", "e_assign", "e_store"}
  /\ Later(head[u])
  /\ Free(head[u])

\* thread u consumes a later position that is published, or that another
\* running thread is producing into a free slot
LaterConsumer(u) ==
  /\ Stalled
  /\ pc[u] \in {"p_wait", "p_read", "p_store"}
  /\ Later(tail[u])
  /\ \/ buffer_[SlotOf(tail[u])].turn = turn(tail[u]) * 2 + 1
     \/ \E w \in Threads \ {1, u} : LaterProducer(w) /\ head[w] = tail[u]

\* C20: while thread 1 stalls inside emplace before it publishes position
\* p, the blocking producers and consumers of positions p + 1 to
\* p + capacity_ - 1 complete once their own slot allows it, and every
\* consumer, that of p included, receives the value of its own position.
C20_IndependentPositions ==
  /\ \A u \in Threads \ {1} : LaterProducer(u) ~> pc[u] = "idle"
  /\ \A u \in Threads \ {1} : LaterConsumer(u) ~> pc[u] = "idle"
  /\ [](\A u \in Threads :
         pc[u] = "p_store" =>
           val[u] # 0 /\ val[u] = stored[tail[u]])

\* thread 1 has not published its position, whose consumer still waits,
\* and the value of the next position has been pushed and popped
C20_Witness ==
  /\ Stalled
  /\ \E u \in Threads : pc[u] = "p_wait" /\ tail[u] = head[1]
  /\ stored[head[1] + 1] # 0
  /\ Count(popped, stored[head[1] + 1]) = 1
\* head_ has wrapped past MAX_SIZE_T and tail_ has not
Wrapped == head_ < tail_

\* C21 as stated: in a quiescent state where head has wrapped and tail
\* has not, size() returns the number of resident values, which is
\* (head - tail) mod 2^WordBits, and empty() says whether that is 0.
C21_Original ==
  \A t \in Threads :
    Wrapped =>
      /\ last[t].op = "size" =>
           /\ last[t].res = (head_ - tail_) % 2^WordBits
           /\ last[t].res = Cardinality(Resident)
      /\ last[t].op = "empty" => (last[t].res = 1 <=> Resident = {})

\* size() has returned one less than the number of resident values
C21_Witness ==
  \E t \in Threads :
    /\ Wrapped
    /\ last[t].op = "size"
    /\ Cardinality(Resident) = capacity_
    /\ (head_ - tail_) % 2^WordBits = capacity_
    /\ last[t].res = capacity_ - 1
\* C22: with non-blocking calls only, head - tail stays within
\* 0..capacity_, also while calls that have claimed their position have
\* not stored the new turn of their slot.
C22_NonBlockingBounds ==
  /\ 0 <= head_ - tail_
  /\ head_ - tail_ <= capacity_

\* the producer of a position of the second round and a consumer have
\* claimed their positions and have not stored their turn yet
C22_Witness ==
  \E t, u \in Threads :
    /\ pc[t] \in {"te_assign", "te_store"}
    /\ pc[u] \in {"tp_read", "tp_store"}
    /\ head[t] >= capacity_
    /\ head_ - tail_ = capacity_ - 1
    /\ capacity_ = 2
\* C23: a size() that overlaps non-blocking calls only never returns a
\* negative value: the tail it loaded first is at most the head it loads
\* second.
C23_SizeNeverNegative ==
  [][\A t \in Threads :
       Returns(t, "sz_head") => last'[t].res >= 0 /\ tail[t] <= head_
    ]_vars

\* size() returns while tail_ has moved on since size() loaded it and a
\* non-blocking producer and a consumer are in flight
C23_Witness ==
  \E t, u, w \in Threads :
    /\ pc[t] = "sz_head"
    /\ tail[t] < tail_
    /\ pc[u] \in {"te_cas", "te_assign", "te_store"}
    /\ pc[w] \in {"tp_cas", "tp_read", "tp_store"}
\* C24 as stated: a size() that overlaps non-blocking calls only never
\* returns more than capacity_.
C24_Original ==
  [][\A t \in Threads : Returns(t, "sz_head") => last'[t].res <= capacity_
    ]_vars

\* C24, amended: such a size() returns the head it loads second minus the
\* tail it loaded first, which is at most capacity_ plus the number of
\* positions consumers have claimed between the two loads; it is at most
\* capacity_ when no consumer has claimed a position in between.
C24_SizeAtMostCapacityPlusPops ==
  [][\A t \in Threads :
       Returns(t, "sz_head") =>
         /\ last'[t].res = head_ - tail[t]
         /\ last'[t].res <= capacity_ + (tail_ - tail[t])
         /\ tail_ = tail[t] => last'[t].res <= capacity_
    ]_vars

\* size() has returned more than capacity_ on a queue that holds at most
\* capacity_ values
C24_Witness ==
  \E t \in Threads :
    /\ last[t].op = "size"
    /\ last[t].res > capacity_
    /\ head_ - tail_ <= capacity_
    /\ Cardinality(Resident) <= capacity_
\* the value of position p is published or already consumed
Published(p) == buffer_[SlotOf(p)].turn >= turn(p) * 2 + 1

\* thread t claims a position with try_pop in this step
TryPopClaims(t) == pc[t] = "tp_cas" /\ pc'[t] = "tp_read"

\* size() and empty(): -k and true while k pops are pending; delivery: a
\* pending pop receives the value of the push that claimed the same
\* position, the pushes being numbered in claim order
PendingSizeAndDelivery ==
  /\ [](Pending => tail_ = head_ + Cardinality(PendingPops))
  /\ [](\A t \in Threads :
         pc[t] = "p_store" => val[t] = tail[t] + 1 /\ val[t] = stored[tail[t]])
  /\ [][\A t \in Threads :
          /\ Returns(t, "sz_head") =>
               last'[t].res = -Cardinality(PendingPops)
          /\ Returns(t, "em_head") => last'[t].res = 1
       ]_vars

\* C25 as stated, in its weakest reading: size() is -k and empty() true
\* while k pops are pending, pushes are delivered in claim order, and
\* try_pop claims a value only when the value of every pending pop has
\* been published.
C25_Original ==
  /\ PendingSizeAndDelivery
  /\ [][\A t \in Threads :
          TryPopClaims(t) =>
            \A u \in Threads : pc[u] = "p_wait" => Published(tail[u])
       ]_vars

\* C25, amended: size() is -k and empty() true while k pops are pending,
\* pushes are delivered in claim order, and try_pop claims only a
\* published position that lies after the position of every pending pop:
\* it returns false until more pushes have been claimed than pops are
\* pending and the push of its own position has been published.
C25_PendingConsumers ==
  /\ PendingSizeAndDelivery
  /\ [][\A t \in Threads :
          TryPopClaims(t) =>
            /\ Published(tail[t])
            /\ tail[t] < head_
            /\ \A u \in Threads :
                 pc[u] \in {"p_wait", "p_read", "p_store"} => tail[u] < tail[t]
       ]_vars

\* size() has returned -2 while two pops are pending
C25_Witness ==
  \E t \in Threads :
    /\ Pending
    /\ Cardinality(PendingPops) = 2
    /\ last[t] = [op |-> "size", res |-> -2]
\* slots whose ~Slot() has run
SlotsDestroyed == {i \in DOMAIN destroyed : SlotGone(i)}

\* C26 as stated: the teardown gives back to deallocate as many slots as
\* the constructor obtained from allocate, and destroys as many slots as
\* the constructor constructed.
C26_Original ==
  /\ dtor.at # "badfree"
  /\ dtor.at = "done" =>
       /\ deallocated = allocated
       /\ Cardinality(SlotsDestroyed) = Cardinality(DOMAIN buffer_)
       /\ Cardinality(DOMAIN buffer_) = capacity_

\* the teardown is over: every constructed slot was destroyed, and
\* deallocate was given two slots less than allocate had returned
C26_Witness ==
  /\ dtor.at = "done"
  /\ Cardinality(SlotsDestroyed) = capacity_
  /\ allocated = capacity_ + 1
  /\ deallocated = capacity_ - 1
  /\ Len(popped) >= 1
\* the capacity the variant's constructor is said to produce
AltSaturated(capacity) ==
  IF capacity = MAX_SIZE_T
    THEN MAX_SIZE_T - 1
    ELSE (IF capacity < 1 THEN 1 ELSE capacity) + 1

\* C27 as stated: the variant's construction never fails; the effective
\* capacity is the request (raised to 1 when below 1) plus 1, saturating
\* at the maximum - 1 for the maximum request; so it is never 0 and the
\* round computation never divides by zero.
C27_Original ==
  /\ ctor # "threw"
  /\ ctor = "ok" =>
       /\ capacity_ = AltSaturated(request)
       /\ capacity_ # 0
  /\ \A t \in Threads : last[t].op # "fault"

\* the maximum request was constructed with capacity 0 and a round
\* computation on it trapped
C27_Witness ==
  /\ ctor = "ok"
  /\ request = MAX_SIZE_T
  /\ capacity_ = 0
  /\ buffer_ = <<>>
  /\ \E t \in Threads : last[t].op = "fault"
====
